---- MODULE Spec2Model ----
(***************************************************************************)
(* A model of src/zip.py: the five archive operations list, create,        *)
(* extract, extractall and test, over one archive path, a small source     *)
(* tree and one destination directory.                                     *)
(*                                                                         *)
(* Strings that the code inspects character by character (paths, the root  *)
(* prefix, the semicolon-joined source argument) are sequences of          *)
(* one-character strings.  A message is a record of the pieces the code    *)
(* concatenates.  The ZIP container is a sequence of entries; the standard *)
(* library calls the code makes (ZipFile, write, extract, testzip,         *)
(* os.walk, os.path) are modelled by what they do to that state,           *)
(* including the exceptions they raise.                                    *)
(***************************************************************************)
EXTENDS Integers, Sequences, FiniteSets, TLC

VARIABLES
    source,      \* create's argument: source paths joined by ";"
    root,        \* create's argument: the root prefix
    overwrite,   \* create's argument: 0 or 1
    member,      \* extract's argument: the member name
    archive,     \* the file at `filename`: [exists, valid, entries]
    parentOk,    \* whether the directory that holds `filename` exists
    path,        \* the destination directory of the call: the names extracted into it
    op,          \* the operation of the current (or last) call
    pc,          \* the position inside the call
    status,      \* local variable status
    message,     \* local variable message
    filecnt,     \* create's local variable filecnt
    list_source, \* create's loop: the items still to process
    archivepath, \* the last value of create's local archivepath
    infoarray,   \* list's local variable infoarray
    myzip,       \* the archive handle: "none", "open" or "closed"
    opens,       \* how many times this call has opened the archive
    exc,         \* the exception in flight (type "none" when there is none)
    failed,      \* whether a step of this call has failed so far
    pre,         \* the archive and destination as they were when the call began
    made,        \* how the create call that wrote the archive ended ("none": no create wrote it)
    result       \* response_text of the call, once it has returned

vars == <<source, root, overwrite, member, archive, parentOk, path, op, pc,
          status, message, filecnt, list_source, archivepath, infoarray,
          myzip, opens, exc, failed, pre, made, result>>

(***************************************************************************)
(* Bounds.                                                                 *)
(***************************************************************************)
MaxSources == 2
MaxMembers == 2
MaxLen == 4
MaxRootLen == 2

(***************************************************************************)
(* Strings.                                                                *)
(***************************************************************************)
Min(a, b) == IF a < b THEN a ELSE b

\* s[i-1:] in Python's slicing
From(s, i) == SubSeq(s, i, Len(s))

StartsWith(s, p) == Len(p) <= Len(s) /\ SubSeq(s, 1, Len(p)) = p

\* r in s: r occurs in s as a substring
Contains(s, r) == \E i \in 1..(Len(s) - Len(r) + 1) : SubSeq(s, i, i + Len(r) - 1) = r

\* str.replace(s, old, ''): every non-overlapping occurrence of old, found
\* left to right in one pass, is removed; an empty old changes nothing
RECURSIVE Replace(_, _)
Replace(s, old) ==
    IF old = <<>> \/ Len(s) < Len(old) THEN s
    ELSE IF StartsWith(s, old) THEN Replace(From(s, Len(old) + 1), old)
    ELSE <<Head(s)>> \o Replace(Tail(s), old)

\* str.strip(): leading and trailing blanks removed
RECURSIVE LStrip(_)
LStrip(s) == IF s # <<>> /\ Head(s) = " " THEN LStrip(Tail(s)) ELSE s

RECURSIVE RStrip(_)
RStrip(s) ==
    IF s # <<>> /\ s[Len(s)] = " " THEN RStrip(SubSeq(s, 1, Len(s) - 1)) ELSE s

Strip(s) == RStrip(LStrip(s))

\* str.split(sep): the pieces between the separators, empty pieces kept
RECURSIVE SplitAcc(_, _, _)
SplitAcc(s, sep, cur) ==
    IF s = <<>> THEN <<cur>>
    ELSE IF Head(s) = sep THEN <<cur>> \o SplitAcc(Tail(s), sep, <<>>)
    ELSE SplitAcc(Tail(s), sep, Append(cur, Head(s)))

Split(s, sep) == SplitAcc(s, sep, <<>>)

RECURSIVE JoinWith(_, _)
JoinWith(parts, sep) ==
    IF parts = <<>> THEN <<>>
    ELSE IF Len(parts) = 1 THEN parts[1]
    ELSE parts[1] \o <<sep>> \o JoinWith(Tail(parts), sep)

RECURSIVE NonEmpty(_)
NonEmpty(parts) ==
    IF parts = <<>> THEN <<>>
    ELSE IF Head(parts) = <<>> THEN NonEmpty(Tail(parts))
    ELSE <<Head(parts)>> \o NonEmpty(Tail(parts))

\* os.path.normpath for paths without "." and ".." components: repeated
\* separators collapse, a trailing separator goes, exactly two leading
\* separators stay two, and the empty path becomes "."
NormPath(p) ==
    LET comps == JoinWith(NonEmpty(Split(p, "/")), "/")
        lead  == IF StartsWith(p, <<"/", "/">>) /\ ~StartsWith(p, <<"/", "/", "/">>)
                 THEN <<"/", "/">>
                 ELSE IF StartsWith(p, <<"/">>) THEN <<"/">> ELSE <<>>
        out   == lead \o comps
    IN  IF out = <<>> THEN <<".">> ELSE out

RECURSIVE LStripSep(_)
LStripSep(s) == IF s # <<>> /\ Head(s) = "/" THEN LStripSep(Tail(s)) ELSE s

\* The name ZipFile.write stores for arcname: normpath, then the leading
\* separators removed by `while arcname[0] in (os.sep, os.altsep)`, which
\* raises IndexError when nothing is left; a directory gets a trailing "/".
ArcName(arcname, isdir) ==
    LET n == LStripSep(NormPath(arcname))
    IN  IF n = <<>> THEN [ok |-> FALSE, name |-> <<>>]
        ELSE [ok |-> TRUE, name |-> IF isdir THEN Append(n, "/") ELSE n]

\* os.path.join(dirpath, name)
PathJoin(dirpath, name) ==
    IF dirpath # <<>> /\ dirpath[Len(dirpath)] = "/" THEN dirpath \o name
    ELSE dirpath \o <<"/">> \o name

(***************************************************************************)
(* The filesystem the sources live in.  It does not change during a run:   *)
(* /d is a directory holding the file a and the directory d, /d/d holds    *)
(* the file a, /l is a directory that cannot be listed, and nothing else   *)
(* exists.                                                                 *)
(***************************************************************************)
DirD == <<"/", "d">>
FileDA == <<"/", "d", "/", "a">>
DirDD == <<"/", "d", "/", "d">>
FileDDA == <<"/", "d", "/", "d", "/", "a">>
DirL == <<"/", "l">>
Missing == <<"/", "x">>

Kind(p) ==
    CASE p = DirD -> "dir"
      [] p = FileDA -> "file"
      [] p = DirDD -> "dir"
      [] p = FileDDA -> "file"
      [] p = DirL -> "locked"
      [] OTHER -> "none"

\* os.scandir(p) of a directory that can be listed
Listing(p) ==
    CASE p = DirD -> << <<"a">>, <<"d">> >>
      [] p = DirDD -> << <<"a">> >>
      [] OTHER -> <<>>

\* os.path.exists, os.path.isfile, and whether os.scandir succeeds
Exists(p) == Kind(p) # "none"
IsFile(p) == Kind(p) = "file"
IsDir(p) == Kind(p) \in {"dir", "locked"}
CanList(p) == Kind(p) = "dir"

\* One write call of create: the path written and whether it is a directory
WriteOf(p, isdir) == [p |-> p, isdir |-> isdir]

RECURSIVE WritesIn(_, _, _)
WritesIn(top, names, wantDir) ==
    IF names = <<>> THEN <<>>
    ELSE LET q == PathJoin(top, Head(names))
         IN  (IF IsDir(q) = wantDir THEN <<WriteOf(q, wantDir)>> ELSE <<>>)
             \o WritesIn(top, Tail(names), wantDir)

\* The write calls of create's loop over os.walk(top), in the code's order:
\* per directory its files, then its subdirectories, then the walk goes down
\* into each subdirectory.  os.walk ignores the error of a directory it
\* cannot list and yields nothing for it.
RECURSIVE WalkWrites(_)
RECURSIVE WalkDown(_, _)
WalkDown(top, names) ==
    IF names = <<>> THEN <<>>
    ELSE LET q == PathJoin(top, Head(names))
         IN  (IF IsDir(q) THEN WalkWrites(q) ELSE <<>>) \o WalkDown(top, Tail(names))

WalkWrites(top) ==
    IF ~CanList(top) THEN <<>>
    ELSE WritesIn(top, Listing(top), FALSE)
         \o WritesIn(top, Listing(top), TRUE)
         \o WalkDown(top, Listing(top))

\* Whether os.walk(top) met a directory it could not list (and ignored it)
RECURSIVE WalkIgnoredError(_)
WalkIgnoredError(top) ==
    \/ ~CanList(top)
    \/ \E i \in 1..Len(Listing(top)) :
          /\ IsDir(PathJoin(top, Listing(top)[i]))
          /\ WalkIgnoredError(PathJoin(top, Listing(top)[i]))

(***************************************************************************)
(* Messages, exceptions and results.                                       *)
(***************************************************************************)
\* A message is head + body + path, or n + head + path for create's count
Msg(head, body, p, n) == [head |-> head, body |-> body, path |-> p, n |-> n]
NoMsg == Msg("", "", <<>>, 0)

Exc(type, text, strerror, p) ==
    [type |-> type, text |-> text, strerror |-> strerror, path |-> p]
NoExc == Exc("none", "", "", <<>>)

\* the archive path argument, after filename.strip()
filename == Strip(<<" ", "/", "z">>)

\* what open() raises for a path whose directory is missing, for an existing
\* file opened in mode x, and for any other refusal
ENOENT == Exc("FileNotFoundError", "[Errno 2] No such file or directory: ",
              "No such file or directory", filename)
EEXIST == Exc("FileExistsError", "[Errno 17] File exists: ", "File exists", filename)
EACCES == Exc("PermissionError", "[Errno 13] Permission denied: ",
              "Permission denied", filename)
EIO == Exc("OSError", "[Errno 5] Input/output error", "Input/output error", <<>>)

\* str(err)
StrOf(e) == Msg("", e.text, e.path, 0)

\* create's except clauses (lines 124-132)
CreateHandler(e) ==
    IF e.type = "FileExistsError" THEN StrOf(e)
    ELSE IF e.type = "FileNotFoundError" THEN Msg("File not found: ", e.text, e.path, 0)
    ELSE StrOf(e)

\* the except clauses of list, extract, extractall and test
ReadHandler(e) ==
    IF e.type = "FileNotFoundError" THEN Msg("", e.strerror, filename, 0)
    ELSE StrOf(e)

Handler(o, e) == IF o = "create" THEN CreateHandler(e) ELSE ReadHandler(e)

Entry(name, isdir, health) == [name |-> name, isdir |-> isdir, health |-> health]

Absent == [exists |-> FALSE, valid |-> FALSE, entries |-> <<>>]
Zip(entries) == [exists |-> TRUE, valid |-> TRUE, entries |-> entries]

Pending == [status |-> "pending", message |-> NoMsg, zipinfo |-> <<>>]

\* ZipFile.getinfo(name): the last entry stored under the name
LastNamed(entries, name) ==
    LET idx == {i \in 1..Len(entries) : entries[i].name = name}
    IN  entries[CHOOSE i \in idx : \A j \in idx : j <= i]

(***************************************************************************)
(* Inputs.                                                                 *)
(***************************************************************************)
\* the items a caller may name in `source`; one carries a leading blank
ItemChoices == {FileDA, <<" ">> \o FileDDA, DirD, DirL, Missing}

SourceChoices ==
    {JoinWith(l, ";") : l \in UNION {[1..n -> ItemChoices] : n \in 1..MaxSources}}

RootChoices == {<<>>, DirD, Append(DirD, "/")}

MemberChoices == {<<"a">>, <<"d", "/", "a">>, <<"q">>}

\* an archive written earlier by somebody else
OldZip == Zip(<<Entry(<<"o">>, FALSE, "good")>>)

(***************************************************************************)
(* The start of a call: the assignments before the try statement.  The     *)
(* caller hands every call a destination directory that is still empty.    *)
(***************************************************************************)
Begin(o, first) ==
    /\ pc = "idle"
    /\ op' = o
    /\ pc' = first
    /\ status' = ""
    /\ message' = NoMsg
    /\ filecnt' = 0
    /\ archivepath' = <<>>
    /\ infoarray' = <<>>
    /\ myzip' = "none"
    /\ opens' = 0
    /\ exc' = NoExc
    /\ failed' = FALSE
    /\ path' = {}
    /\ pre' = [archive |-> archive, path |-> {}]
    /\ result' = Pending
    /\ UNCHANGED <<source, root, overwrite, archive, parentOk, made>>

\* an exception raised inside the try statement but outside the with block
RaiseOutside(e) ==
    /\ exc' = e
    /\ failed' = TRUE
    /\ status' = "error"
    /\ message' = Handler(op, e)
    /\ pc' = "report"

(***************************************************************************)
(* create (lines 71-138)                                                   *)
(***************************************************************************)
\* lines 84-95
CallCreate ==
    /\ Begin("create", "precheck")
    /\ list_source' = Split(source, ";")
    /\ UNCHANGED member

\* a pre-check that looks at the first item only
FirstMissingHead(items) == IF ~Exists(Strip(items[1])) THEN 1 ELSE 0

\* the first item of the list, in list order, that does not exist
FirstMissing(items) ==
    LET idx == {i \in 1..Len(items) : ~Exists(Strip(items[i]))}
    IN  IF idx = {} THEN 0 ELSE CHOOSE i \in idx : \A j \in idx : i <= j

\* lines 97-100
CreatePrecheck ==
    /\ pc = "precheck"
    /\ LET m == FirstMissing(list_source)
       IN  IF m # 0
           THEN RaiseOutside(Exc("FileNotFoundError", "", "", Strip(list_source[m])))
           ELSE /\ pc' = "open"
                /\ UNCHANGED <<exc, failed, status, message>>
    /\ UNCHANGED <<source, root, overwrite, member, archive, parentOk, path, op,
                   filecnt, list_source, archivepath, infoarray, myzip, opens,
                   pre, made, result>>

\* a mode that ignores the overwrite flag
ModeAlwaysW(ow) == "w"

\* lines 90-93
Mode(ow) == IF ow = 0 THEN "x" ELSE "w"

\* line 102: ZipFile(filename, mode, ZIP_DEFLATED)
CreateOpen ==
    /\ pc = "open"
    /\ op = "create"
    /\ \/ /\ ~parentOk
          /\ RaiseOutside(ENOENT)
          /\ UNCHANGED <<archive, myzip, opens>>
       \/ /\ parentOk
          /\ Mode(overwrite) = "x"
          /\ archive.exists
          /\ RaiseOutside(EEXIST)
          /\ UNCHANGED <<archive, myzip, opens>>
       \/ /\ parentOk
          /\ ~(Mode(overwrite) = "x" /\ archive.exists)
          /\ RaiseOutside(EACCES)
          /\ UNCHANGED <<archive, myzip, opens>>
       \/ /\ parentOk
          /\ ~(Mode(overwrite) = "x" /\ archive.exists)
          /\ archive' = [exists |-> TRUE, valid |-> FALSE, entries |-> <<>>]
          /\ myzip' = "open"
          /\ opens' = opens + 1
          /\ pc' = "body"
          /\ UNCHANGED <<exc, failed, status, message>>
    /\ UNCHANGED <<source, root, overwrite, member, parentOk, path, op, filecnt,
                   list_source, archivepath, infoarray, pre, made, result>>

\* lines 106, 114, 119
ArchivePath(item, r) == Replace(item, r)

\* the write calls one item of list_source leads to (lines 105-120)
ItemWrites(item) ==
    IF IsFile(item) THEN <<WriteOf(item, FALSE)>> ELSE WalkWrites(item)

\* a count that takes every write, directories too
CountEvery(w) == 1

\* lines 108 and 116: files are counted, directories are not
CountOf(w) == IF w.isdir THEN 0 ELSE 1

RECURSIVE CountAll(_)
CountAll(ws) == IF ws = <<>> THEN 0 ELSE CountOf(Head(ws)) + CountAll(Tail(ws))

\* the entry myzip.write(w.p, archivepath) appends
Written(w, r) == Entry(ArcName(ArchivePath(w.p, r), w.isdir).name, w.isdir, "good")

\* lines 103-120: one iteration of the loop over list_source.  The write
\* number k fails with an I/O error (k beyond the last write: none does); a
\* write whose stored name comes out empty raises IndexError before that.
CreateItem ==
    /\ pc = "body"
    /\ op = "create"
    /\ list_source # <<>>
    /\ LET item == Strip(Head(list_source))
           ws   == ItemWrites(item)
           bad  == {i \in 1..Len(ws) : ~ArcName(ArchivePath(ws[i].p, root), ws[i].isdir).ok}
           b    == IF bad = {} THEN Len(ws) + 1 ELSE CHOOSE i \in bad : \A j \in bad : i <= j
       IN  \E k \in 1..(Len(ws) + 1) :
             LET f    == Min(k, b)
                 done == SubSeq(ws, 1, f - 1)
             IN  /\ archive' = [archive EXCEPT !.entries =
                                   @ \o [i \in 1..Len(done) |-> Written(done[i], root)]]
                 /\ filecnt' = filecnt + CountAll(done)
                 /\ archivepath' = IF ws = <<>> THEN archivepath
                                   ELSE ArchivePath(ws[Min(f, Len(ws))].p, root)
                 /\ IF f <= Len(ws)
                    THEN /\ exc' = IF f = b
                                   THEN Exc("IndexError", "string index out of range", "", <<>>)
                                   ELSE EIO
                         /\ failed' = TRUE
                         /\ pc' = "close"
                         /\ UNCHANGED list_source
                    ELSE /\ failed' = (failed \/ (~IsFile(item) /\ WalkIgnoredError(item)))
                         /\ list_source' = Tail(list_source)
                         /\ UNCHANGED <<exc, pc>>
    /\ UNCHANGED <<source, root, overwrite, member, parentOk, path, op, status,
                   message, infoarray, myzip, opens, pre, made, result>>

\* lines 122-123
CreateDone ==
    /\ pc = "body"
    /\ op = "create"
    /\ list_source = <<>>
    /\ status' = "ok"
    /\ message' = Msg(" files written to archive ", "", filename, filecnt)
    /\ pc' = "close"
    /\ UNCHANGED <<source, root, overwrite, member, archive, parentOk, path, op,
                   filecnt, list_source, archivepath, infoarray, myzip, opens,
                   exc, failed, pre, made, result>>

(***************************************************************************)
(* list, extract, extractall, test: the read-only operations               *)
(***************************************************************************)
\* lines 36-40
CallList ==
    /\ Begin("list", "open")
    /\ UNCHANGED <<member, list_source>>

\* lines 154-156
CallExtract ==
    /\ Begin("extract", "open")
    /\ member' \in MemberChoices
    /\ UNCHANGED list_source

\* lines 189-191
CallExtractAll ==
    /\ Begin("extractall", "open")
    /\ UNCHANGED <<member, list_source>>

\* lines 222-224
CallTest ==
    /\ Begin("test", "open")
    /\ UNCHANGED <<member, list_source>>

\* lines 43, 159, 194, 227: ZipFile(filename)
OpenRead ==
    /\ pc = "open"
    /\ op # "create"
    /\ \/ /\ ~archive.exists
          /\ RaiseOutside(ENOENT)
          /\ UNCHANGED <<myzip, opens>>
       \/ /\ archive.exists
          /\ ~archive.valid
          /\ RaiseOutside(Exc("BadZipFile", "File is not a zip file", "", <<>>))
          /\ UNCHANGED <<myzip, opens>>
       \/ /\ archive.exists
          /\ RaiseOutside(EACCES)
          /\ UNCHANGED <<myzip, opens>>
       \/ /\ archive.exists
          /\ archive.valid
          /\ myzip' = "open"
          /\ opens' = opens + 1
          /\ pc' = "body"
          /\ UNCHANGED <<exc, failed, status, message>>
    /\ UNCHANGED <<source, root, overwrite, member, archive, parentOk, path, op,
                   filecnt, list_source, archivepath, infoarray, pre, made, result>>

\* lines 44-54
ListBody ==
    /\ pc = "body"
    /\ op = "list"
    /\ infoarray' = [i \in 1..Len(archive.entries) |->
                        [filename |-> archive.entries[i].name]]
    /\ status' = "ok"
    /\ message' = Msg("", "", filename, 0)
    /\ pc' = "close"
    /\ UNCHANGED <<source, root, overwrite, member, archive, parentOk, path, op,
                   filecnt, list_source, archivepath, myzip, opens, exc, failed,
                   pre, made, result>>

\* what reading a member's data raises
ReadError(health) ==
    IF health = "crc" THEN Exc("BadZipFile", "Bad CRC-32 for file ", "", <<>>)
    ELSE Exc("zlib.error", "Error -3 while decompressing data", "", <<>>)

\* ZipFile.extract(member, path) looks the member up before it touches path
ExtractLookup(entries, m) == m \in {entries[i].name : i \in 1..Len(entries)}

\* an extract that makes the target before it looks the member up
ExtractMissingTouch(dest, m) == dest \cup {m}

\* the destination after extract has failed to find the member: getinfo
\* raises KeyError before any directory or file is made
ExtractMissing(dest, m) == dest

\* line 160
ExtractBody ==
    /\ pc = "body"
    /\ op = "extract"
    /\ IF ~ExtractLookup(archive.entries, member)
       THEN /\ exc' = Exc("KeyError", "There is no item named in the archive: ", "", member)
            /\ failed' = TRUE
            /\ path' = ExtractMissing(path, member)
       ELSE LET e == LastNamed(archive.entries, member)
            IN  \/ /\ exc' = EIO
                   /\ failed' = TRUE
                   /\ path' \in {path, path \cup {member}}
                \/ /\ e.health # "good"
                   /\ exc' = ReadError(e.health)
                   /\ failed' = TRUE
                   /\ path' = path \cup {member}
                \/ /\ e.health = "good"
                   /\ path' = path \cup {member}
                   /\ UNCHANGED <<exc, failed>>
    /\ pc' = "close"
    /\ UNCHANGED <<source, root, overwrite, member, archive, parentOk, op, status,
                   message, filecnt, list_source, archivepath, infoarray, myzip,
                   opens, pre, made, result>>

\* line 195: the members are extracted in archive order; member number k
\* fails (k beyond the last: none does)
ExtractAllBody ==
    /\ pc = "body"
    /\ op = "extractall"
    /\ LET es  == archive.entries
           bad == {i \in 1..Len(es) : LastNamed(es, es[i].name).health # "good"}
           b   == IF bad = {} THEN Len(es) + 1 ELSE CHOOSE i \in bad : \A j \in bad : i <= j
       IN  \E k \in 1..(Len(es) + 1) :
             LET f == Min(k, b)
             IN  /\ path' = path \cup {es[i].name : i \in 1..Min(f, Len(es))}
                 /\ IF f <= Len(es)
                    THEN /\ exc' = IF f = b /\ k > b
                                   THEN ReadError(LastNamed(es, es[f].name).health)
                                   ELSE EIO
                         /\ failed' = TRUE
                    ELSE UNCHANGED <<exc, failed>>
    /\ pc' = "close"
    /\ UNCHANGED <<source, root, overwrite, member, archive, parentOk, op, status,
                   message, filecnt, list_source, archivepath, infoarray, myzip,
                   opens, pre, made, result>>

\* ZipFile.testzip(): the members are read in archive order, each looked up
\* by its name; the first whose CRC or header is bad is returned by name, a
\* member whose compressed stream cannot be decoded raises, and None comes
\* back when every member reads well
TestZip(entries) ==
    LET seen(i) == LastNamed(entries, entries[i].name).health
        bad     == {i \in 1..Len(entries) : seen(i) # "good"}
    IN  IF bad = {} THEN [raised |-> FALSE, none |-> TRUE, name |-> <<>>]
        ELSE LET i == CHOOSE x \in bad : \A j \in bad : x <= j
             IN  [raised |-> seen(i) = "stream", none |-> FALSE, name |-> entries[i].name]

\* line 229: if (badfile) -- None and the empty string are both false
Truthy(badfile) == ~badfile.none /\ badfile.name # <<>>

\* lines 228-234
TestBody ==
    /\ pc = "body"
    /\ op = "test"
    /\ LET badfile == TestZip(archive.entries)
       IN  IF badfile.raised
           THEN /\ exc' = ReadError("stream")
                /\ failed' = TRUE
                /\ UNCHANGED <<status, message>>
           ELSE /\ IF Truthy(badfile)
                   THEN /\ status' = "error"
                        /\ message' = Msg("", "", badfile.name, 0)
                   ELSE /\ status' = "ok"
                        /\ message' = Msg("Test passed for ", "", filename, 0)
                /\ UNCHANGED <<exc, failed>>
    /\ pc' = "close"
    /\ UNCHANGED <<source, root, overwrite, member, archive, parentOk, path, op,
                   filecnt, list_source, archivepath, infoarray, myzip, opens,
                   pre, made, result>>

(***************************************************************************)
(* Leaving the with block, the except clauses, and the return              *)
(***************************************************************************)
\* a close that is reached on the path without an exception only
WithExitOnSuccess(h, e) == IF e.type = "none" THEN "closed" ELSE h

\* ZipFile.__exit__ closes the handle whether or not an exception is in flight
WithExit(h, e) == "closed"

\* the statements after the with block (lines 161-162, 196-197)
AfterWith(o, st, msg, m) ==
    IF o = "extract" THEN [status |-> "ok", message |-> Msg("Extracted ", " to ", m, 0)]
    ELSE IF o = "extractall"
    THEN [status |-> "ok", message |-> Msg("Extracted ", " to ", filename, 0)]
    ELSE [status |-> st, message |-> msg]

\* The with block ends.  Closing an archive opened for writing writes its
\* central directory, which may fail; the failure replaces an exception in
\* flight.  Then the except clause that matches runs, or the code goes on.
Close ==
    /\ pc = "close"
    /\ myzip' = WithExit(myzip, exc)
    /\ \E cf \in {FALSE, op = "create"} :
         LET e == IF cf THEN EIO ELSE exc
         IN  /\ archive' = IF op = "create" THEN [archive EXCEPT !.valid = ~cf]
                           ELSE archive
             /\ exc' = e
             /\ IF e.type # "none"
                THEN /\ failed' = TRUE
                     /\ status' = "error"
                     /\ message' = Handler(op, e)
                ELSE /\ status' = AfterWith(op, status, message, member).status
                     /\ message' = AfterWith(op, status, message, member).message
                     /\ UNCHANGED failed
    /\ pc' = "report"
    /\ UNCHANGED <<source, root, overwrite, member, parentOk, path, op, filecnt,
                   list_source, archivepath, infoarray, opens, pre, made, result>>

\* lines 63-68, 134-138, 170-174, 205-209, 243-247
Report ==
    /\ pc = "report"
    /\ result' = [status |-> status, message |-> message, zipinfo |-> infoarray]
    /\ pc' = "idle"
    /\ UNCHANGED <<source, root, overwrite, member, archive, parentOk, path, op,
                   status, message, filecnt, list_source, archivepath, infoarray,
                   myzip, opens, exc, failed, pre>>
    /\ made' = IF op = "create" /\ opens = 1 THEN status ELSE made

(***************************************************************************)
(* Specifications                                                          *)
(***************************************************************************)
Idle ==
    /\ op = "none"
    /\ pc = "idle"
    /\ status = ""
    /\ message = NoMsg
    /\ filecnt = 0
    /\ list_source = <<>>
    /\ archivepath = <<>>
    /\ infoarray = <<>>
    /\ myzip = "none"
    /\ opens = 0
    /\ exc = NoExc
    /\ failed = FALSE
    /\ member = <<>>
    /\ path = {}
    /\ pre = [archive |-> archive, path |-> path]
    /\ made = "none"
    /\ result = Pending

\* Every source list, root and overwrite flag, against a target that is
\* absent, absent with its directory missing, or already there.
Init ==
    /\ source \in SourceChoices
    /\ root \in RootChoices
    /\ overwrite \in {0, 1}
    /\ archive \in {Absent, OldZip}
    /\ parentOk \in BOOLEAN
    /\ archive.exists => parentOk
    /\ Idle

Next ==
    \/ CallCreate
    \/ CreatePrecheck
    \/ CreateOpen
    \/ CreateItem
    \/ CreateDone
    \/ CallList
    \/ CallExtract
    \/ CallExtractAll
    \/ CallTest
    \/ OpenRead
    \/ ListBody
    \/ ExtractBody
    \/ ExtractAllBody
    \/ TestBody
    \/ Close
    \/ Report

Spec == Init /\ [][Next]_vars

(***************************************************************************)
(* The read-only operations against archives of every shape: absent, not   *)
(* a ZIP file, or holding up to MaxMembers members, each sound, with a bad *)
(* CRC, or with a compressed stream that cannot be decoded.  A member may  *)
(* carry the empty name, and two members may share a name.                 *)
(***************************************************************************)
MemberNames == {<<"a">>, <<"b">>, <<>>}

Healths == {"good", "crc", "stream"}

EntryChoices == {Entry(n, FALSE, h) : n \in MemberNames, h \in Healths}

ArchiveChoices ==
    {Absent, [exists |-> TRUE, valid |-> FALSE, entries |-> <<>>]}
    \cup {Zip(es) : es \in UNION {[1..n -> EntryChoices] : n \in 0..MaxMembers}}

InitArchives ==
    /\ source = FileDA
    /\ root = DirD
    /\ overwrite \in {0, 1}
    /\ archive \in ArchiveChoices
    /\ parentOk = TRUE
    /\ Idle

SpecArchives == InitArchives /\ [][Next]_vars

(***************************************************************************)
(* The path computation of create alone (lines 104-107), on every item and *)
(* root up to a length, whether or not the item exists.                    *)
(***************************************************************************)
Alphabet == {"/", "d", "a"}

Strings(n) == UNION {[1..k -> Alphabet] : k \in 0..n}

InitStrip ==
    /\ source \in Strings(MaxLen)
    /\ root \in Strings(MaxRootLen) \ {<<>>}
    /\ overwrite = 1
    /\ archive = Zip(<<>>)
    /\ parentOk = TRUE
    /\ Idle

\* lines 104, 106, 107 for one item that is a regular file
WriteOne ==
    /\ pc = "idle"
    /\ op = "none"
    /\ op' = "write"
    /\ pc' = "done"
    /\ LET item == Strip(source)
           ap   == ArchivePath(item, root)
       IN  /\ archivepath' = ap
           /\ IF ArcName(ap, FALSE).ok
              THEN /\ archive' = [archive EXCEPT !.entries =
                                     Append(@, Written(WriteOf(item, FALSE), root))]
                   /\ filecnt' = filecnt + CountOf(WriteOf(item, FALSE))
                   /\ UNCHANGED <<exc, failed>>
              ELSE /\ exc' = Exc("IndexError", "string index out of range", "", <<>>)
                   /\ failed' = TRUE
                   /\ UNCHANGED <<archive, filecnt>>
    /\ UNCHANGED <<source, root, overwrite, member, parentOk, path, status, message,
                   list_source, infoarray, myzip, opens, pre, made, result>>

NextStrip == WriteOne

SpecStrip == InitStrip /\ [][NextStrip]_vars

(***************************************************************************)
(* Properties                                                              *)
(***************************************************************************)
Returned(o) == pc = "idle" /\ op = o

\* the source items as create sees them
Items == LET l == Split(source, ";") IN [i \in 1..Len(l) |-> Strip(l[i])]

MissingItems == {i \in 1..Len(Items) : Kind(Items[i]) = "none"}

LeastOf(S) == CHOOSE i \in S : \A j \in S : i <= j

NotFoundMsg == Msg("File not found: ", "", Items[LeastOf(MissingItems)], 0)

\* C1: when a source path of create does not exist, whatever the overwrite
\* flag, the call never opens, creates, truncates or writes the target (the
\* file is throughout as it was when the call began) and returns "error".
C1_MissingSourceAtomic ==
    (op = "create" /\ MissingItems # {}) =>
        /\ archive = pre.archive
        /\ opens = 0
        /\ myzip = "none"
        /\ (pc = "idle" => result.status = "error")

C1_Witness ==
    /\ Returned("create")
    /\ Len(Items) = 2
    /\ MissingItems = {2}
    /\ overwrite = 1
    /\ pre.archive = OldZip
    /\ archive = OldZip
    /\ result.status = "error"

\* C2 as stated: create with overwrite = 0 on an existing target returns
\* "error" with the file-exists message for every source list, and leaves
\* the file as it was.
C2_Original ==
    (Returned("create") /\ overwrite = 0 /\ pre.archive.exists) =>
        /\ result.status = "error"
        /\ result.message = StrOf(EEXIST)
        /\ archive = pre.archive

\* C2 amended: create with overwrite = 0 on an existing target returns
\* "error" and leaves the file as it was; the message is the file-exists
\* failure when every source exists, and "File not found: " with the first
\* missing source when one is missing.
C2_Amended ==
    (Returned("create") /\ overwrite = 0 /\ pre.archive.exists) =>
        /\ result.status = "error"
        /\ archive = pre.archive
        /\ result.message = IF MissingItems = {} THEN StrOf(EEXIST) ELSE NotFoundMsg

C2_Witness ==
    /\ Returned("create")
    /\ overwrite = 0
    /\ pre.archive = OldZip
    /\ archive = OldZip
    /\ MissingItems = {}
    /\ result.status = "error"
    /\ result.message = StrOf(EEXIST)

\* C3: every call returns a result whose status is "ok" or "error", and the
\* status is "ok" only if no step of the call failed.
C3_OkOnlyIfNothingFailed ==
    (pc = "idle" /\ op # "none") =>
        /\ result.status \in {"ok", "error"}
        /\ (result.status = "ok" => ~failed)

\* the entry expected for a source: the leading root removed, and
\* the separator that then leads dropped, nothing else changed
Relative(item, r) == LStripSep(From(item, Len(r) + 1))

\* C4: after a successful create whose sources are N regular files, each
\* led by root, list returns N entries, the i-th being the i-th source with
\* the leading root removed.
C4_ListAfterCreate ==
    (/\ Returned("list")
     /\ result.status = "ok"
     /\ made = "ok"
     /\ \A i \in 1..Len(Items) : Kind(Items[i]) = "file" /\ StartsWith(Items[i], root)) =>
        /\ Len(result.zipinfo) = Len(Items)
        /\ \A i \in 1..Len(Items) : result.zipinfo[i].filename = Relative(Items[i], root)

\* C5: for a non-empty root, the archive-relative path create computes for
\* an item never contains root.
C5_ArchivePathWithoutRoot ==
    (op = "write" /\ root # <<>>) => ~Contains(archivepath, root)

\* C6: the error message of create has the "File not found: " form exactly
\* when a declared source does not exist, and then names the first missing
\* one; it is the file-exists failure only when the target exists and
\* overwrite is 0, and always then if the sources exist; any other failure
\* has neither form.
C6_ErrorCauses ==
    (Returned("create") /\ result.status = "error") =>
        /\ (result.message.head = "File not found: ") <=> (MissingItems # {})
        /\ (MissingItems # {}) => result.message = NotFoundMsg
        /\ (result.message = StrOf(EEXIST)) => (pre.archive.exists /\ overwrite = 0)
        /\ (MissingItems = {} /\ pre.archive.exists /\ overwrite = 0)
              => result.message = StrOf(EEXIST)

\* the files and the directories below a directory that can be listed
FsPaths == {DirD, FileDA, DirDD, FileDDA, DirL}

Below(d, kinds) ==
    IF Kind(d) # "dir" THEN {}
    ELSE {q \in FsPaths : Kind(q) \in kinds /\ StartsWith(q, Append(d, "/"))}

RECURSIVE Expected(_, _)
Expected(items, kinds) ==
    IF items = <<>> THEN 0
    ELSE (IF Kind(Head(items)) = "file"
          THEN (IF "file" \in kinds THEN 1 ELSE 0)
          ELSE Cardinality(Below(Head(items), kinds)))
         + Expected(Tail(items), kinds)

\* C7: on a successful create the count in the message is the number of
\* file writes: one per regular-file source and one per file below each
\* directory source; the subdirectories below are entries of the archive
\* and are not counted.
C7_CountIsFileWrites ==
    (Returned("create") /\ result.status = "ok") =>
        /\ result.message =
              Msg(" files written to archive ", "", filename, Expected(Items, {"file"}))
        /\ Cardinality({i \in 1..Len(archive.entries) : ~archive.entries[i].isdir})
              = Expected(Items, {"file"})
        /\ Cardinality({i \in 1..Len(archive.entries) : archive.entries[i].isdir})
              = Expected(Items, {"dir", "locked"})

C7_Witness ==
    /\ Returned("create")
    /\ result.status = "ok"
    /\ Items = <<DirD>>
    /\ result.message.n = 2
    /\ Len(archive.entries) = 3

\* C8: test on an archive that opens returns "error" with the name of the
\* first corrupt member in archive order when a member is corrupt, and "ok"
\* with "Test passed for <archive>" exactly when none is.
C8_TestNamesFirstCorrupt ==
    (Returned("test") /\ opens = 1) =>
        LET es  == pre.archive.entries
            bad == {i \in 1..Len(es) : es[i].health # "good"}
        IN  IF bad # {}
            THEN /\ result.status = "error"
                 /\ result.message = Msg("", "", es[LeastOf(bad)].name, 0)
            ELSE /\ result.status = "ok"
                 /\ result.message = Msg("Test passed for ", "", filename, 0)

\* C9: extract of a member name that is not in the archive returns "error"
\* and makes nothing in the destination.
C9_ExtractMissingMember ==
    (/\ op = "extract"
     /\ \A i \in 1..Len(pre.archive.entries) : pre.archive.entries[i].name # member) =>
        /\ path = pre.path
        /\ (pc = "idle" => result.status = "error")

C9_Witness ==
    /\ Returned("extract")
    /\ member = <<"q">>
    /\ pre.archive.valid
    /\ Len(pre.archive.entries) = 2
    /\ exc.type = "KeyError"
    /\ result.status = "error"
    /\ path = {}

\* C10: a call opens the archive at most once, and when it reports and
\* returns, by whatever path, the handle is no longer open.
C10_OpenedOnceClosedOnExit ==
    /\ opens <= 1
    /\ (myzip = "open" => opens = 1 /\ pc \in {"body", "close"})
    /\ (pc \in {"report", "idle"} => myzip # "open")

C10_Witness ==
    /\ Returned("create")
    /\ opens = 1
    /\ exc.type # "none"
    /\ myzip = "closed"
    /\ result.status = "error"

====
